---- MODULE Spec2Model ----
(***************************************************************************)
(* secaudit: the workflow orchestrator (runWorkflow / emitOutputs), the    *)
(* workflow planner (buildWorkflow), the intent routers, the section       *)
(* locator, validator and summarizer the steps call, and the ledger        *)
(* builder (buildLedger).                                                  *)
(*                                                                         *)
(* Numbers: confidences and thresholds are scaled by 100 (0.75 -> 75);     *)
(* sentence scores are scaled by 2 (the 0.5 bonus -> 1).                   *)
(* Text: a document is a sequence of blocks (the body > div elements of an *)
(* HTML filing, the lines of a text filing).  A block records what the     *)
(* code looks at: which item number its text starts with, whether the      *)
(* exact heading wording follows, whether NEXT_ITEM_HEADING matches it,    *)
(* its whitespace-normalised length, and the sentences it holds.  The      *)
(* blocks of one document stand for pairwise different texts.              *)
(***************************************************************************)
EXTENDS Integers, Sequences, FiniteSets, TLC

(* ---------------------------- bounds ---------------------------------- *)
\* content blocks that follow a heading in a generated document
MaxContentBlocks == 1
\* longest --require list typed on the command line
MaxRequire == 1

(* ------------------------ program constants --------------------------- *)
COMMAND_CONFIDENCE_THRESHOLD == 75
INTENT_CONFIDENCE_THRESHOLD == 50
MIN_SECTION_LENGTH == 500
MIN_EXTRACTED_LENGTH == 1000
MAX_SUMMARY_POINTS == 5
MAX_EVIDENCE_SNIPPETS == 3
MAX_EVIDENCE_LENGTH == 200
MAX_TEXT_SECTION_LINES == 800
MAX_TEXT_SECTION_CHARS == 100000
HEADING_SKIP_LINES == 3

ALL_REQUIRED_STEPS ==
  <<"fetch", "extract", "locate_sections", "validate", "generate", "emit_ledger">>

ALL_STEPS ==
  <<"fetch", "extract", "locate_sections", "validate", "generate", "emit_ledger">>

DEFAULT_REQUIRE == <<"risk-factors", "mdna", "financials">>

Modes == {"command", "intent"}

(* ---------------------------- helpers --------------------------------- *)
Range(s) == {s[i] : i \in DOMAIN s}

Min(a, b) == IF a < b THEN a ELSE b

RECURSIVE SumLen(_)
SumLen(blocks) ==
  IF blocks = <<>> THEN 0 ELSE Head(blocks).len + SumLen(Tail(blocks))

\* length of blocks.join('\n')
JoinLen(blocks) ==
  IF blocks = <<>> THEN 0 ELSE SumLen(blocks) + (Len(blocks) - 1)

\* Array.prototype.slice(0, n)
Slice(s, n) == SubSeq(s, 1, Min(n, Len(s)))

\* Array.prototype.includes
Includes(s, x) == \E i \in DOMAIN s : s[i] = x

\* sequences over S of length lo..hi
SeqsOf(S, lo, hi) == UNION {[1..n -> S] : n \in lo..hi}

(* ------------------------- document model ----------------------------- *)
\* sentence: what scoreSentences reads of it: its length, the keywords that
\* occur in it (hits), those of them that occur twice, whether it holds a
\* currency figure or a percentage
Sentence(id, len, hits, twice, fig) ==
  [id |-> id, len |-> len, hits |-> hits, twice |-> twice, fig |-> fig]

ContentSentences ==
  << Sentence(1, 80, {"risk", "volatility", "revenue"}, {}, FALSE),
     Sentence(2, 120, {"revenue", "growth", "margin"}, {}, TRUE),
     Sentence(3, 20, {"risk"}, {}, FALSE),
     Sentence(4, 250, {"litigation"}, {}, TRUE),
     Sentence(5, 126, {}, {}, FALSE),
     Sentence(6, 300, {"margin", "debt"}, {"margin"}, FALSE),
     Sentence(7, 198, {"risk", "adverse"}, {"risk"}, FALSE) >>

\* a paragraph of 1100 characters: seven sentences and the six blanks between
ContentBlock ==
  [item |-> "none", exact |-> FALSE, term |-> FALSE, len |-> 1100,
   sents |-> ContentSentences]

\* "Item 1A. Risk Factors" (exact wording) or "Item 1A. Risks" (item number only)
HeadingBlock(item, exact) ==
  [item |-> item, exact |-> exact, term |-> TRUE, len |-> 21,
   sents |-> << Sentence(8, 8, {}, {}, FALSE), Sentence(9, 12, {}, {}, FALSE) >>]

\* how one section appears in a generated document
SectionVariants ==
  {[head |-> "absent", n |-> 0]}
    \cup [head : {"exact"}, n : 0..MaxContentBlocks]
    \cup {[head |-> "loose", n |-> MaxContentBlocks]}

Chunk(item, v) ==
  IF v.head = "absent" THEN <<>>
  ELSE <<HeadingBlock(item, v.head = "exact")>> \o [i \in 1..v.n |-> ContentBlock]

\* what detectContentType looks for in the payload
Markers == {"%PDF", "<html", "none"}

Document(marker, blocks) == [marker |-> marker, blocks |-> blocks]

EmptyDocument == Document("none", <<>>)

Documents ==
  {Document(m, Chunk("1a", a) \o Chunk("7", b) \o Chunk("8", c)) :
     m \in Markers, a \in SectionVariants, b \in SectionVariants,
     c \in SectionVariants}

(* ------------------------- error messages ----------------------------- *)
\* an Error's message: its leading text, a number it quotes, and the
\* failures a validation message lists
Message(head, n, failures) == [head |-> head, n |-> n, failures |-> failures]

NoError == Message("", 0, <<>>)

Failure(key, why, value, limit) ==
  [key |-> key, why |-> why, value |-> value, limit |-> limit]

FetchErrors ==
  {Message("SEC request failed", 0, <<>>),
   Message("Ticker not found in SEC company tickers", 0, <<>>)}

(* -------------------- extractor: extractText -------------------------- *)
BlankLine ==
  [item |-> "none", exact |-> FALSE, term |-> FALSE, len |-> 0, sents |-> <<>>]

\* pages.join('\n\n'): an empty line between two pages
RECURSIVE JoinPages(_)
JoinPages(pages) ==
  IF Len(pages) <= 1 THEN pages
  ELSE <<Head(pages), BlankLine>> \o JoinPages(Tail(pages))

\* extractFromHtml keeps the text blocks longer than 2 characters;
\* extractFromPdf joins the pages; a text payload is returned as it is.
\* The result is the sequence of lines of the extracted text.
extractText(rawContent, contentType) ==
  CASE contentType = "html" ->
         SelectSeq(rawContent.blocks, LAMBDA b : b.len > 2)
    [] contentType = "pdf" -> JoinPages(rawContent.blocks)
    [] OTHER -> rawContent.blocks

detectContentType(content) ==
  IF content.marker = "%PDF" THEN "pdf"
  ELSE IF content.marker = "<html" THEN "html"
  ELSE "text"

(* ------------------------ locator: locateSections --------------------- *)
SECTION_PATTERNS ==
  << [key |-> "risk_factors", requireKeys |-> {"risk-factors", "risk_factors"},
      item |-> "1a"],
     [key |-> "mdna", requireKeys |-> {"mdna", "md&a", "mda"}, item |-> "7"],
     [key |-> "financials",
      requireKeys |-> {"financials", "financial-statements", "financial_statements"},
      item |-> "8"] >>

MinOf(S) == CHOOSE i \in S : \A j \in S : i <= j

\* headingPatterns[pi].test(text): pattern 0 is the exact wording, pattern 1
\* the bare item number
MatchesHeading(b, pattern, pi) ==
  IF pi = 0 THEN b.item = pattern.item /\ b.exact ELSE b.item = pattern.item

makeNotFound(name) ==
  [name |-> name, found |-> FALSE, confidence |-> 0, startOffset |-> -1,
   endOffset |-> -1, lengthChars |-> 0, content |-> <<>>]

findSectionByDomSiblings(bodyDivs, pattern) ==
  LET heads == {i \in DOMAIN bodyDivs :
                  /\ ~(bodyDivs[i].len > 150 \/ bodyDivs[i].len < 3)
                  /\ \E pi \in {0, 1} : MatchesHeading(bodyDivs[i], pattern, pi)}
  IN IF heads = {} THEN makeNotFound(pattern.key)
     ELSE
       LET headingIdx == MinOf(heads)
           confidence == IF MatchesHeading(bodyDivs[headingIdx], pattern, 0)
                         THEN 95 ELSE 90
           ends == {i \in (headingIdx + 1)..Len(bodyDivs) :
                      bodyDivs[i].len < 100 /\ bodyDivs[i].term}
           endIdx == IF ends = {} THEN Len(bodyDivs) + 1 ELSE MinOf(ends)
           content == SelectSeq(SubSeq(bodyDivs, headingIdx + 1, endIdx - 1),
                                LAMBDA b : b.len > 2)
       IN [name |-> pattern.key, found |-> TRUE, confidence |-> confidence,
           startOffset |-> headingIdx - 1, endOffset |-> endIdx - 1,
           lengthChars |-> JoinLen(content), content |-> content]

locateInHtml(html) ==
  [k \in DOMAIN SECTION_PATTERNS |->
     findSectionByDomSiblings(html.blocks, SECTION_PATTERNS[k])]

\* String.prototype.trim on the joined lines: empty lines at either end go
RECURSIVE TrimLines(_)
TrimLines(lines) ==
  IF lines = <<>> THEN <<>>
  ELSE IF Head(lines).len = 0 THEN TrimLines(Tail(lines))
  ELSE IF lines[Len(lines)].len = 0
       THEN TrimLines(SubSeq(lines, 1, Len(lines) - 1))
  ELSE lines

\* lines[1] is the heading line; lines[i + 1] is the code's lines[i]
extractTextSection(lines, start) ==
  LET after == SubSeq(lines, start, Len(lines))
      ends == {i \in (HEADING_SKIP_LINES + 1)..Len(after) :
                 /\ ~(after[i].len < 3)
                 /\ after[i].term
                 /\ after[i].len < 150}
      endIdx == IF ends = {} THEN -1 ELSE MinOf(ends) - 1
      sectionLines == IF endIdx > 0 THEN Slice(after, endIdx)
                      ELSE Slice(after, MAX_TEXT_SECTION_LINES)
  IN TrimLines(sectionLines)

\* variant: the looser pattern gives confidence 0.70
locateInText_WeakFallback(text) ==
  [k \in DOMAIN SECTION_PATTERNS |->
     LET pattern == SECTION_PATTERNS[k]
         hits(pi) == {i \in DOMAIN text : MatchesHeading(text[i], pattern, pi)}
     IN IF hits(0) = {} /\ hits(1) = {} THEN makeNotFound(pattern.key)
        ELSE
          LET pi == IF hits(0) # {} THEN 0 ELSE 1
              line == MinOf(hits(pi))
              startOffset == JoinLen(SubSeq(text, 1, line - 1))
                               + (IF line > 1 THEN 1 ELSE 0)
              sectionContent == extractTextSection(text, line)
              length == Min(JoinLen(sectionContent), MAX_TEXT_SECTION_CHARS)
          IN [name |-> pattern.key, found |-> TRUE,
              confidence |-> IF pi = 0 THEN 90 ELSE 70,
              startOffset |-> startOffset, endOffset |-> startOffset + length,
              lengthChars |-> length, content |-> sectionContent]]

locateInText(text) ==
  [k \in DOMAIN SECTION_PATTERNS |->
     LET pattern == SECTION_PATTERNS[k]
         hits(pi) == {i \in DOMAIN text : MatchesHeading(text[i], pattern, pi)}
     IN IF hits(0) = {} /\ hits(1) = {} THEN makeNotFound(pattern.key)
        ELSE
          LET pi == IF hits(0) # {} THEN 0 ELSE 1
              line == MinOf(hits(pi))
              startOffset == JoinLen(SubSeq(text, 1, line - 1))
                               + (IF line > 1 THEN 1 ELSE 0)
              sectionContent == extractTextSection(text, line)
              length == Min(JoinLen(sectionContent), MAX_TEXT_SECTION_CHARS)
          IN [name |-> pattern.key, found |-> TRUE,
              confidence |-> IF pi = 0 THEN 90 ELSE 85,
              startOffset |-> startOffset, endOffset |-> startOffset + length,
              lengthChars |-> length, content |-> sectionContent]]

locateSections(rawHtml, extractedText, contentType) ==
  IF contentType = "html" THEN locateInHtml(rawHtml)
  ELSE locateInText(extractedText)

matchesSectionKey(sectionName, requireKey) ==
  \E k \in DOMAIN SECTION_PATTERNS :
    /\ SECTION_PATTERNS[k].key = sectionName
    /\ requireKey \in SECTION_PATTERNS[k].requireKeys

\* sections.find((s) => matchesSectionKey(s.name, reqKey)): 0 when there is none
FindSection(sections, reqKey) ==
  LET hits == {i \in DOMAIN sections : matchesSectionKey(sections[i].name, reqKey)}
  IN IF hits = {} THEN 0 ELSE MinOf(hits)

(* ---------------------- validator: validateSections ------------------- *)
\* variant: the length is looked at only when the confidence is enough
KeyFailures_ElseIfLength(sections, reqKey, confidenceThreshold) ==
  LET i == FindSection(sections, reqKey)
  IN IF i = 0 \/ ~sections[i].found
     THEN <<Failure(reqKey, "not found in filing", 0, 0)>>
     ELSE IF sections[i].confidence < confidenceThreshold
     THEN <<Failure(reqKey, "confidence below threshold",
                    sections[i].confidence, confidenceThreshold)>>
     ELSE IF sections[i].lengthChars < MIN_SECTION_LENGTH
     THEN <<Failure(reqKey, "too short", sections[i].lengthChars,
                    MIN_SECTION_LENGTH)>>
     ELSE <<>>

\* variant: a required key without a found section adds no failure
KeyFailures_NotFoundIgnored(sections, reqKey, confidenceThreshold) ==
  LET i == FindSection(sections, reqKey)
  IN IF i = 0 \/ ~sections[i].found
     THEN <<>>
     ELSE (IF sections[i].confidence < confidenceThreshold
           THEN <<Failure(reqKey, "confidence below threshold",
                          sections[i].confidence, confidenceThreshold)>>
           ELSE <<>>)
          \o
          (IF sections[i].lengthChars < MIN_SECTION_LENGTH
           THEN <<Failure(reqKey, "too short", sections[i].lengthChars,
                          MIN_SECTION_LENGTH)>>
           ELSE <<>>)

\* the failures one required key adds
KeyFailures(sections, reqKey, confidenceThreshold) ==
  LET i == FindSection(sections, reqKey)
  IN IF i = 0 \/ ~sections[i].found
     THEN <<Failure(reqKey, "not found in filing", 0, 0)>>
     ELSE (IF sections[i].confidence < confidenceThreshold
           THEN <<Failure(reqKey, "confidence below threshold",
                          sections[i].confidence, confidenceThreshold)>>
           ELSE <<>>)
          \o
          (IF sections[i].lengthChars < MIN_SECTION_LENGTH
           THEN <<Failure(reqKey, "too short", sections[i].lengthChars,
                          MIN_SECTION_LENGTH)>>
           ELSE <<>>)

RECURSIVE ValidationFailures(_, _, _)
ValidationFailures(sections, requiredKeys, confidenceThreshold) ==
  IF requiredKeys = <<>> THEN <<>>
  ELSE KeyFailures(sections, Head(requiredKeys), confidenceThreshold)
         \o ValidationFailures(sections, Tail(requiredKeys), confidenceThreshold)

\* variant: hardFail is not looked at, any failure is thrown
validateSections_ThrowsAlways(sections, requiredKeys, confidenceThreshold, hardFail) ==
  LET failures == ValidationFailures(sections, requiredKeys, confidenceThreshold)
  IN IF Len(failures) > 0
     THEN Message("Validation failed", 0, failures)
     ELSE NoError

\* the Error validateSections throws, NoError when it returns
validateSections(sections, requiredKeys, confidenceThreshold, hardFail) ==
  LET failures == ValidationFailures(sections, requiredKeys, confidenceThreshold)
  IN IF Len(failures) > 0 /\ hardFail
     THEN Message("Validation failed", 0, failures)
     ELSE NoError

\* what validateSections writes with console.warn: one message or none
validateSectionsWarning(sections, requiredKeys, confidenceThreshold, hardFail) ==
  LET failures == ValidationFailures(sections, requiredKeys, confidenceThreshold)
  IN IF Len(failures) > 0 /\ ~hardFail
     THEN <<Message("Validation failed", 0, failures)>>
     ELSE <<>>

(* ---------------------- summarizer: generateAnalysis ------------------ *)
RISK_KEYWORDS ==
  {"risk", "adverse", "uncertainty", "litigation", "regulatory", "competition",
   "cybersecurity", "supply chain", "economic", "volatility", "liability",
   "compliance", "disruption"}

FINANCIAL_KEYWORDS ==
  {"revenue", "income", "loss", "margin", "earnings", "cash flow", "assets",
   "liabilities", "debt", "capital", "dividend", "operating", "growth",
   "decline", "increase", "decrease"}

MDNA_KEYWORDS ==
  {"revenue", "growth", "margin", "decline", "increase", "segment", "operating",
   "strategy", "outlook", "trend", "driver", "year-over-year", "compared to",
   "primarily due", "result of"}

getKeywordsForSection(name) ==
  CASE name = "risk_factors" -> RISK_KEYWORDS
    [] name = "mdna" -> MDNA_KEYWORDS
    [] name = "financials" -> FINANCIAL_KEYWORDS
    [] OTHER -> RISK_KEYWORDS \cup FINANCIAL_KEYWORDS

sectionKeyToName(key) ==
  CASE key \in {"risk-factors", "risk_factors"} -> "risk_factors"
    [] key \in {"mdna", "md&a", "mda"} -> "mdna"
    [] key \in {"financials", "financial-statements", "financial_statements"} ->
         "financials"
    [] OTHER -> key

\* the sentences of the blocks, in order, without the empty ones
RECURSIVE splitSentences(_)
splitSentences(content) ==
  IF content = <<>> THEN <<>>
  ELSE SelectSeq(Head(content).sents, LAMBDA s : s.len > 0)
         \o splitSentences(Tail(content))

\* twice the score: 2 for each keyword the sentence includes, 1 for a figure
Score2(sentence, keywords) ==
  2 * Cardinality(sentence.hits \cap keywords) + (IF sentence.fig THEN 1 ELSE 0)

\* variant: a sentence goes behind the later ones of equal score
RECURSIVE InsertByScore_TiesReversed(_, _)
InsertByScore_TiesReversed(x, sorted) ==
  IF sorted = <<>> THEN <<x>>
  ELSE IF Head(sorted).score < x.score
       THEN <<x>> \o sorted
       ELSE <<Head(sorted)>> \o InsertByScore_TiesReversed(x, Tail(sorted))

\* Array.prototype.sort((a, b) => b.score - a.score): stable, descending
RECURSIVE InsertByScore(_, _)
InsertByScore(x, sorted) ==
  IF sorted = <<>> THEN <<x>>
  ELSE IF Head(sorted).score < x.score \/ Head(sorted).score = x.score
       THEN <<x>> \o sorted
       ELSE <<Head(sorted)>> \o InsertByScore(x, Tail(sorted))

RECURSIVE SortByScore(_)
SortByScore(scored) ==
  IF scored = <<>> THEN <<>>
  ELSE InsertByScore(Head(scored), SortByScore(Tail(scored)))

scoreSentences(sentences, keywords) ==
  LET kept == SelectSeq(sentences, LAMBDA s : s.len > 30 /\ s.len < 500)
      scored == [i \in DOMAIN kept |->
                   [text |-> [id |-> kept[i].id, len |-> kept[i].len, cut |-> FALSE],
                    score |-> Score2(kept[i], keywords)]]
  IN SortByScore(scored)

\* variant: maxLen characters are kept before the three dots
truncate_DotsOnTop(text, maxLen) ==
  IF text.len <= maxLen THEN text
  ELSE [id |-> text.id, len |-> maxLen + 3, cut |-> TRUE]

truncate(text, maxLen) ==
  IF text.len <= maxLen THEN text
  ELSE [id |-> text.id, len |-> (maxLen - 3) + 3, cut |-> TRUE]

\* one line of the overall summary
SummaryLine(kind, names, text) == [kind |-> kind, names |-> names, text |-> text]

NoText == [id |-> 0, len |-> 0, cut |-> FALSE]

buildOverallSummary(analyses) ==
  LET found == SelectSeq(analyses, LAMBDA a : a.found)
      missing == SelectSeq(analyses, LAMBDA a : ~a.found)
      names(as) == [i \in DOMAIN as |-> as[i].name]
      withTop == SelectSeq(found, LAMBDA a : Len(a.summary) > 0)
  IN (IF Len(found) > 0 THEN <<SummaryLine("Analyzed", names(found), NoText)>>
      ELSE <<>>)
     \o (IF Len(missing) > 0
         THEN <<SummaryLine("Missing", names(missing), NoText)>> ELSE <<>>)
     \o [i \in DOMAIN withTop |->
           SummaryLine("top", <<withTop[i].name>>, withTop[i].summary[1])]

\* variant: the entry of a section that was not located is marked found
AnalyzeKey_PlaceholderFound(sections, reqKey) ==
  LET i == FindSection(sections, reqKey)
  IN IF i = 0 \/ ~sections[i].found
     THEN [name |-> sectionKeyToName(reqKey), found |-> TRUE, confidence |-> 0,
           summary |-> <<>>, evidence |-> <<>>]
     ELSE
       LET keywords == getKeywordsForSection(sections[i].name)
           sentences == splitSentences(sections[i].content)
           scored == scoreSentences(sentences, keywords)
           top == Slice(scored, MAX_SUMMARY_POINTS)
           ev == Slice(scored, MAX_EVIDENCE_SNIPPETS)
       IN [name |-> sections[i].name, found |-> TRUE,
           confidence |-> sections[i].confidence,
           summary |-> [j \in DOMAIN top |-> top[j].text],
           evidence |-> [j \in DOMAIN ev |->
                           truncate(ev[j].text, MAX_EVIDENCE_LENGTH)]]

\* the SectionAnalysis of one required key
AnalyzeKey(sections, reqKey) ==
  LET i == FindSection(sections, reqKey)
  IN IF i = 0 \/ ~sections[i].found
     THEN [name |-> sectionKeyToName(reqKey), found |-> FALSE, confidence |-> 0,
           summary |-> <<>>, evidence |-> <<>>]
     ELSE
       LET keywords == getKeywordsForSection(sections[i].name)
           sentences == splitSentences(sections[i].content)
           scored == scoreSentences(sentences, keywords)
           top == Slice(scored, MAX_SUMMARY_POINTS)
           ev == Slice(scored, MAX_EVIDENCE_SNIPPETS)
       IN [name |-> sections[i].name, found |-> TRUE,
           confidence |-> sections[i].confidence,
           summary |-> [j \in DOMAIN top |-> top[j].text],
           evidence |-> [j \in DOMAIN ev |->
                           truncate(ev[j].text, MAX_EVIDENCE_LENGTH)]]

generateAnalysis(sections, requiredKeys) ==
  LET analyses == [k \in DOMAIN requiredKeys |-> AnalyzeKey(sections, requiredKeys[k])]
  IN [sections |-> analyses, overallSummary |-> buildOverallSummary(analyses)]

(* ------------------- control plane: buildWorkflow --------------------- *)
Step(name, required) == [name |-> name, required |-> required]

\* variant: fetch is not required
buildWorkflow_FetchOptional(opts) ==
  LET isCommand == opts.mode = "command"
      threshold == IF isCommand THEN COMMAND_CONFIDENCE_THRESHOLD
                   ELSE INTENT_CONFIDENCE_THRESHOLD
  IN [steps |-> << Step("fetch", FALSE),
                   Step("extract", TRUE),
                   Step("locate_sections", TRUE),
                   Step("validate", isCommand),
                   Step("generate", isCommand),
                   Step("emit_ledger", TRUE) >>,
      skippedSteps |-> <<>>,
      confidenceThreshold |-> threshold,
      closure |-> [threshold |-> threshold, isCommand |-> isCommand]]

\* variant: the two thresholds are taken the wrong way round
buildWorkflow_ThresholdsSwapped(opts) ==
  LET isCommand == opts.mode = "command"
      threshold == IF isCommand THEN INTENT_CONFIDENCE_THRESHOLD
                   ELSE COMMAND_CONFIDENCE_THRESHOLD
  IN [steps |-> << Step("fetch", TRUE),
                   Step("extract", TRUE),
                   Step("locate_sections", TRUE),
                   Step("validate", isCommand),
                   Step("generate", isCommand),
                   Step("emit_ledger", TRUE) >>,
      skippedSteps |-> <<>>,
      confidenceThreshold |-> threshold,
      closure |-> [threshold |-> threshold, isCommand |-> isCommand]]

\* variant: validate and generate are required in both modes
buildWorkflow_AllRequired(opts) ==
  LET isCommand == opts.mode = "command"
      threshold == IF isCommand THEN COMMAND_CONFIDENCE_THRESHOLD
                   ELSE INTENT_CONFIDENCE_THRESHOLD
  IN [steps |-> << Step("fetch", TRUE),
                   Step("extract", TRUE),
                   Step("locate_sections", TRUE),
                   Step("validate", TRUE),
                   Step("generate", TRUE),
                   Step("emit_ledger", TRUE) >>,
      skippedSteps |-> <<>>,
      confidenceThreshold |-> threshold,
      closure |-> [threshold |-> threshold, isCommand |-> isCommand]]

\* closure: the threshold and isCommand the validate step's closure captured
buildWorkflow(opts) ==
  LET isCommand == opts.mode = "command"
      threshold == IF isCommand THEN COMMAND_CONFIDENCE_THRESHOLD
                   ELSE INTENT_CONFIDENCE_THRESHOLD
  IN [steps |-> << Step("fetch", TRUE),
                   Step("extract", TRUE),
                   Step("locate_sections", TRUE),
                   Step("validate", isCommand),
                   Step("generate", isCommand),
                   Step("emit_ledger", TRUE) >>,
      skippedSteps |-> <<>>,
      confidenceThreshold |-> threshold,
      closure |-> [threshold |-> threshold, isCommand |-> isCommand]]

AnalyzeOptions(mode, require, strict) ==
  [mode |-> mode, require |-> require, strict |-> strict]

(* ---------------------- intent router (heuristic) --------------------- *)
\* the words of the request that extractIntentSignals looks for
IntentWords ==
  {"risk", "discussion", "management", "financial", "revenue", "item 7"}

extractIntentSignals(text) ==
  [wantsRiskFactors |-> "risk" \in text,
   wantsMdna |-> text \cap {"discussion", "management", "item 7"} # {},
   wantsFinancials |-> text \cap {"financial", "revenue"} # {},
   isVague |-> text \cap {"risk", "financial", "discussion", "item 7"} = {}]

resolveRequiredSections(signals) ==
  LET sections == (IF signals.wantsRiskFactors THEN <<"risk-factors">> ELSE <<>>)
                  \o (IF signals.wantsMdna THEN <<"mdna">> ELSE <<>>)
                  \o (IF signals.wantsFinancials THEN <<"financials">> ELSE <<>>)
  IN IF signals.isVague THEN DEFAULT_REQUIRE
     ELSE IF Len(sections) > 0 THEN sections ELSE DEFAULT_REQUIRE

\* r1, r2, r3: whether each Math.random() draw fell below its probability
computeProbabilisticSkips(signals, r1, r2, r3) ==
  (IF r1 THEN <<"validate">> ELSE <<>>)
  \o (IF signals.isVague /\ r2 THEN <<"locate_sections">> ELSE <<>>)
  \o (IF r3 THEN <<"generate">> ELSE <<>>)

\* the options the cli builds from the result, and the plan
routeIntent(text, r1, r2, r3) ==
  LET signals == extractIntentSignals(text)
      requiredSections == resolveRequiredSections(signals)
      stubOptions == AnalyzeOptions("intent", requiredSections, FALSE)
  IN [options |-> stubOptions,
      plan |-> [buildWorkflow(stubOptions) EXCEPT
                  !.skippedSteps = computeProbabilisticSkips(signals, r1, r2, r3)]]

(* ------------------------ intent router (LLM) ------------------------- *)
\* llmSteps: the set of step names the model answered; llmSections: its
\* sections list
routeIntentWithLlm(llmSteps, llmSections) ==
  LET skippedSteps == SelectSeq(ALL_STEPS, LAMBDA st : st \notin llmSteps)
      sections == IF Len(llmSections) > 0 THEN llmSections ELSE DEFAULT_REQUIRE
      stubOptions == AnalyzeOptions("intent", sections, FALSE)
  IN [options |-> stubOptions,
      plan |-> [buildWorkflow(stubOptions) EXCEPT !.skippedSteps = skippedSteps]]

(* --------------------------- ledger: buildLedger ---------------------- *)
undefined == Message("undefined", 0, <<>>)

\* variant: only failed results count as executed
RECURSIVE ExecutedOf_PassedDropped(_)
ExecutedOf_PassedDropped(results) ==
  IF results = <<>> THEN <<>>
  ELSE (IF Head(results).status = "failed"
        THEN <<Head(results).name>> ELSE <<>>)
       \o ExecutedOf_PassedDropped(Tail(results))

\* variant: the status of a result is not looked at
RECURSIVE ExecutedOf_AnyStatus(_)
ExecutedOf_AnyStatus(results) ==
  IF results = <<>> THEN <<>>
  ELSE <<Head(results).name>> \o ExecutedOf_AnyStatus(Tail(results))

\* the loop over ctx.stepResults, for executedSteps
RECURSIVE ExecutedOf(_)
ExecutedOf(results) ==
  IF results = <<>> THEN <<>>
  ELSE (IF Head(results).status \in {"passed", "failed"}
        THEN <<Head(results).name>> ELSE <<>>)
       \o ExecutedOf(Tail(results))

\* variant: a skipped result is pushed without the includes check
RECURSIVE SkippedOf_NoIncludesCheck(_, _)
SkippedOf_NoIncludesCheck(results, skippedSteps) ==
  IF results = <<>> THEN skippedSteps
  ELSE IF Head(results).status = "skipped"
       THEN SkippedOf_NoIncludesCheck(Tail(results),
                                      Append(skippedSteps, Head(results).name))
       ELSE SkippedOf_NoIncludesCheck(Tail(results), skippedSteps)

\* the loop over ctx.stepResults, for skippedSteps
RECURSIVE SkippedOf(_, _)
SkippedOf(results, skippedSteps) ==
  IF results = <<>> THEN skippedSteps
  ELSE IF Head(results).status = "skipped"
            /\ ~Includes(skippedSteps, Head(results).name)
       THEN SkippedOf(Tail(results), Append(skippedSteps, Head(results).name))
       ELSE SkippedOf(Tail(results), skippedSteps)

\* the last entry of s named n
LastNamed(s, n) ==
  s[CHOOSE i \in DOMAIN s :
      s[i].name = n /\ \A j \in DOMAIN s : s[j].name = n => j <= i]


\* variant: passed is recomputed from the step results
buildLedger_RecomputesPassed(c, p, passed, failureReason) ==
  [mode |-> c.options.mode,
   deterministic |-> c.options.mode = "command",
   workflow |-> "analyze_10k_v1",
   requiredSteps |-> ALL_REQUIRED_STEPS,
   executedSteps |-> ExecutedOf(c.stepResults),
   skippedSteps |-> SkippedOf(c.stepResults, p.skippedSteps),
   durationsMs |-> [n \in {r.name : r \in Range(c.stepResults)} |->
                      LastNamed(c.stepResults, n).durationMs],
   sectionValidation |-> [n \in {x.name : x \in Range(c.sections)} |->
                            LET x == LastNamed(c.sections, n)
                            IN [found |-> x.found, confidence |-> x.confidence,
                                lengthChars |-> x.lengthChars]],
   passed |-> passed /\ \A r \in Range(c.stepResults) : r.status # "failed",
   failureReason |-> failureReason]

\* variant: the failure reason is not copied into the ledger
buildLedger_NoReason(c, p, passed, failureReason) ==
  [mode |-> c.options.mode,
   deterministic |-> c.options.mode = "command",
   workflow |-> "analyze_10k_v1",
   requiredSteps |-> ALL_REQUIRED_STEPS,
   executedSteps |-> ExecutedOf(c.stepResults),
   skippedSteps |-> SkippedOf(c.stepResults, p.skippedSteps),
   durationsMs |-> [n \in {r.name : r \in Range(c.stepResults)} |->
                      LastNamed(c.stepResults, n).durationMs],
   sectionValidation |-> [n \in {x.name : x \in Range(c.sections)} |->
                            LET x == LastNamed(c.sections, n)
                            IN [found |-> x.found, confidence |-> x.confidence,
                                lengthChars |-> x.lengthChars]],
   passed |-> passed,
   failureReason |-> undefined]

buildLedger(c, p, passed, failureReason) ==
  [mode |-> c.options.mode,
   deterministic |-> c.options.mode = "command",
   workflow |-> "analyze_10k_v1",
   requiredSteps |-> ALL_REQUIRED_STEPS,
   executedSteps |-> ExecutedOf(c.stepResults),
   skippedSteps |-> SkippedOf(c.stepResults, p.skippedSteps),
   durationsMs |-> [n \in {r.name : r \in Range(c.stepResults)} |->
                      LastNamed(c.stepResults, n).durationMs],
   sectionValidation |-> [n \in {x.name : x \in Range(c.sections)} |->
                            LET x == LastNamed(c.sections, n)
                            IN [found |-> x.found, confidence |-> x.confidence,
                                lengthChars |-> x.lengthChars]],
   passed |-> passed,
   failureReason |-> failureReason]

buildAnalysisOutput(c) ==
  [mode |-> c.options.mode, workflow |-> "analyze_10k_v1",
   sections |-> c.analyses, overallSummary |-> c.overallSummary]

(* ------------------------------ inputs -------------------------------- *)
RequireKeys == {"risk-factors", "md&a", "liquidity"}

\* opts.require.split(','): the default, or what was typed
CliRequireLists == {DEFAULT_REQUIRE} \cup SeqsOf(RequireKeys, 1, MaxRequire)

\* parsed.sections of the LLM answer
LlmSectionLists == {<<>>, <<"financials">>}

\* readings of timer.elapsed(): twelve milliseconds stand for every
\* reading; a skipped step is recorded with 0 instead
Durations == {12}

(* ------------------------------ state --------------------------------- *)
VARIABLES
  options,        \* AnalyzeOptions of the run
  plan,           \* the WorkflowPlan runWorkflow executes
  ctx,            \* the WorkflowContext
  pc,             \* "loop": between steps; "running": inside step.execute;
                  \* "done": runWorkflow returned; "exited": process.exit ran
  stepIdx,        \* position of the for loop in plan.steps
  stepMs,         \* what timer.elapsed() reads in this run
  invoked,        \* names of the steps whose execute was called, in order
  ledgerWrites,   \* the ledgers written to the ledger file, in order
  analysisWrites, \* the analysis outputs written, in order
  exitCode,       \* -1 while the process runs, then its exit code
  warnings,       \* what validateSections wrote with console.warn, in order
  call,           \* a function called on its own: its name and arguments
  outcome         \* what that call threw or returned, NoCall before it

vars == <<options, plan, ctx, pc, stepIdx, stepMs, invoked, ledgerWrites,
          analysisWrites, exitCode, warnings, call, outcome>>

\* no function is called on its own
NoCall == [fn |-> "none"]

\* the context runWorkflow constructs
NewContext(opts) ==
  [options |-> opts, rawContent |-> EmptyDocument, contentType |-> "html",
   extractedText |-> <<>>, sections |-> <<>>, analyses |-> <<>>,
   stepResults |-> <<>>, overallSummary |-> <<>>]

\* runWorkflow(options, intentPlan) up to the for loop
Start(opts, p) ==
  /\ options = opts
  /\ plan = p
  /\ ctx = NewContext(opts)
  /\ pc = "loop"
  /\ stepIdx = 1
  /\ stepMs \in Durations
  /\ invoked = <<>>
  /\ ledgerWrites = <<>>
  /\ analysisWrites = <<>>
  /\ exitCode = -1
  /\ warnings = <<>>
  /\ call = NoCall
  /\ outcome = NoCall

\* secaudit analyze-10k: runWorkflow(options)
InitAnalyze ==
  \E mode \in Modes, require \in CliRequireLists, strict \in BOOLEAN :
    LET opts == AnalyzeOptions(mode, require, strict)
    IN Start(opts, buildWorkflow(opts))

\* secaudit intent <text>: runWorkflow(options, resolved.plan)
InitIntent ==
  \E text \in SUBSET IntentWords, r1 \in BOOLEAN, r2 \in BOOLEAN, r3 \in BOOLEAN :
    LET resolved == routeIntent(text, r1, r2, r3)
    IN Start(resolved.options, resolved.plan)

\* secaudit intent --llm <text>
InitIntentLlm ==
  \E llmSteps \in SUBSET Range(ALL_STEPS), llmSections \in LlmSectionLists :
    LET resolved == routeIntentWithLlm(llmSteps, llmSections)
    IN Start(resolved.options, resolved.plan)

Init == InitAnalyze \/ InitIntent \/ InitIntentLlm

(* --------------------- orchestrator: runWorkflow ---------------------- *)
CurrentStep == plan.steps[stepIdx]

skippedSet == Range(plan.skippedSteps)

StepResult(name, status, durationMs) ==
  [name |-> name, status |-> status, durationMs |-> durationMs]

FailedResult(name, durationMs, error) ==
  [name |-> name, status |-> "failed", durationMs |-> durationMs, error |-> error]

PushResult(c, result) == [c EXCEPT !.stepResults = Append(@, result)]

\* variant: the mode is not looked at
ShouldHalt_AnyMode(step) == step.required

\* variant: the mode is compared with the wrong constant
ShouldHalt_WrongMode(step) == options.mode = "intent" /\ step.required

\* the condition of the enforced halt in the catch block
ShouldHalt(step) == options.mode = "command" /\ step.required

\* variant: the ledger is written inside the if (passed) block
emitOutputs_LedgerIfPassed(c, p, passed, failureReason) ==
  /\ ledgerWrites' = IF passed
                     THEN Append(ledgerWrites, buildLedger(c, p, passed, failureReason))
                     ELSE ledgerWrites
  /\ analysisWrites' = IF passed THEN Append(analysisWrites, buildAnalysisOutput(c))
                       ELSE analysisWrites

\* variant: the analysis is written whatever passed is
emitOutputs_AlwaysAnalysis(c, p, passed, failureReason) ==
  /\ ledgerWrites' = Append(ledgerWrites, buildLedger(c, p, passed, failureReason))
  /\ analysisWrites' = Append(analysisWrites, buildAnalysisOutput(c))

\* emitOutputs(ctx, plan, passed, failureReason)
emitOutputs(c, p, passed, failureReason) ==
  /\ ledgerWrites' = Append(ledgerWrites, buildLedger(c, p, passed, failureReason))
  /\ analysisWrites' = IF passed THEN Append(analysisWrites, buildAnalysisOutput(c))
                       ELSE analysisWrites

\* variant: a step whose failure does not halt the run is executed again
Settle_RetryOnFailure(after, error) ==
  IF error = NoError
  THEN /\ ctx' = PushResult(after, StepResult(CurrentStep.name, "passed", stepMs))
       /\ pc' = "loop"
       /\ stepIdx' = stepIdx + 1
       /\ UNCHANGED <<ledgerWrites, analysisWrites, exitCode>>
  ELSE LET failed == PushResult(after, FailedResult(CurrentStep.name, stepMs, error))
       IN /\ ctx' = failed
          /\ IF ShouldHalt(CurrentStep)
             THEN /\ emitOutputs(failed, plan, FALSE, error)
                  /\ pc' = "exited"
                  /\ exitCode' = 2
                  /\ stepIdx' = stepIdx
             ELSE /\ pc' = "running"
                  /\ stepIdx' = stepIdx
                  /\ UNCHANGED <<ledgerWrites, analysisWrites, exitCode>>

\* what follows step.execute: the try block after the await when the work
\* returned (error = NoError), the catch block when it threw; after is the
\* context as the work left it
Settle(after, error) ==
  IF error = NoError
  THEN /\ ctx' = PushResult(after, StepResult(CurrentStep.name, "passed", stepMs))
       /\ pc' = "loop"
       /\ stepIdx' = stepIdx + 1
       /\ UNCHANGED <<ledgerWrites, analysisWrites, exitCode>>
  ELSE LET failed == PushResult(after, FailedResult(CurrentStep.name, stepMs, error))
       IN /\ ctx' = failed
          /\ IF ShouldHalt(CurrentStep)
             THEN /\ emitOutputs(failed, plan, FALSE, error)
                  /\ pc' = "exited"
                  /\ exitCode' = 2
                  /\ stepIdx' = stepIdx
             ELSE /\ pc' = "loop"
                  /\ stepIdx' = stepIdx + 1
                  /\ UNCHANGED <<ledgerWrites, analysisWrites, exitCode>>

AtStep == pc = "loop" /\ stepIdx <= Len(plan.steps)

\* variant: the skipped step leaves no result
SkipStep_NoResult ==
  /\ AtStep
  /\ CurrentStep.name \in skippedSet
  /\ stepIdx' = stepIdx + 1
  /\ UNCHANGED <<warnings, call, outcome,
                 options, plan, ctx, pc, stepMs, invoked, ledgerWrites,
                 analysisWrites, exitCode>>

\* variant: the continue is missing, the step is executed after all
SkipStep_NoContinue ==
  /\ AtStep
  /\ CurrentStep.name \in skippedSet
  /\ ctx' = PushResult(ctx, StepResult(CurrentStep.name, "skipped", 0))
  /\ pc' = "running"
  /\ invoked' = Append(invoked, CurrentStep.name)
  /\ UNCHANGED <<warnings, call, outcome,
                 options, plan, stepIdx, stepMs, ledgerWrites, analysisWrites,
                 exitCode>>

\* the step is in the skip set: its result is pushed and the loop continues
SkipStep ==
  /\ AtStep
  /\ CurrentStep.name \in skippedSet
  /\ ctx' = PushResult(ctx, StepResult(CurrentStep.name, "skipped", 0))
  /\ stepIdx' = stepIdx + 1
  /\ UNCHANGED <<warnings, call, outcome,
                 options, plan, pc, stepMs, invoked, ledgerWrites,
                 analysisWrites, exitCode>>

\* timer.begin() and the call of step.execute
BeginStep ==
  /\ AtStep
  /\ CurrentStep.name \notin skippedSet
  /\ pc' = "running"
  /\ invoked' = Append(invoked, CurrentStep.name)
  /\ UNCHANGED <<warnings, call, outcome,
                 options, plan, ctx, stepIdx, stepMs, ledgerWrites,
                 analysisWrites, exitCode>>

Executing(name) == pc = "running" /\ CurrentStep.name = name

\* fetch: fetchFiling throws or returns the payload and its content type
ExecFetch ==
  /\ Executing("fetch")
  /\ \/ \E e \in FetchErrors : Settle(ctx, e)
     \/ \E content \in Documents :
          Settle([ctx EXCEPT !.rawContent = content,
                             !.contentType = detectContentType(content)],
                 NoError)
  /\ UNCHANGED <<options, plan, stepMs, invoked, warnings, call, outcome>>

\* extract: extractFromPdf may throw; the text is stored before its length
\* is checked
ExecExtract ==
  /\ Executing("extract")
  /\ \/ /\ ctx.contentType = "pdf"
        /\ Settle(ctx, Message("PDF extraction failed", 0, <<>>))
     \/ LET text == extractText(ctx.rawContent, ctx.contentType)
            after == [ctx EXCEPT !.extractedText = text]
        IN IF JoinLen(text) < MIN_EXTRACTED_LENGTH
           THEN Settle(after, Message("Extracted text too short", JoinLen(text), <<>>))
           ELSE Settle(after, NoError)
  /\ UNCHANGED <<options, plan, stepMs, invoked, warnings, call, outcome>>

ExecLocate ==
  /\ Executing("locate_sections")
  /\ Settle([ctx EXCEPT !.sections =
               locateSections(ctx.rawContent, ctx.extractedText, ctx.contentType)],
            NoError)
  /\ UNCHANGED <<options, plan, stepMs, invoked, warnings, call, outcome>>

\* variant: validate drops the sections that are not found
ExecValidate_DropsNotFound ==
  /\ Executing("validate")
  /\ Settle([ctx EXCEPT !.sections = SelectSeq(@, LAMBDA x : x.found)],
            validateSections(ctx.sections, ctx.options.require,
                             plan.closure.threshold, plan.closure.isCommand))
  /\ warnings' = warnings \o validateSectionsWarning(ctx.sections, ctx.options.require,
                                plan.closure.threshold, plan.closure.isCommand)
  /\ UNCHANGED <<options, plan, stepMs, invoked, call, outcome>>

ExecValidate ==
  /\ Executing("validate")
  /\ Settle(ctx, validateSections(ctx.sections, ctx.options.require,
                                  plan.closure.threshold, plan.closure.isCommand))
  /\ warnings' = warnings \o validateSectionsWarning(ctx.sections, ctx.options.require,
                                plan.closure.threshold, plan.closure.isCommand)
  /\ UNCHANGED <<options, plan, stepMs, invoked, call, outcome>>

ExecGenerate ==
  /\ Executing("generate")
  /\ LET result == generateAnalysis(ctx.sections, ctx.options.require)
     IN Settle([ctx EXCEPT !.analyses = result.sections,
                           !.overallSummary = result.overallSummary],
               NoError)
  /\ UNCHANGED <<options, plan, stepMs, invoked, warnings, call, outcome>>

\* variant: the emit_ledger work unit writes the ledger itself
ExecEmitLedger_WritesLedger ==
  /\ Executing("emit_ledger")
  /\ ctx' = PushResult(ctx, StepResult("emit_ledger", "passed", stepMs))
  /\ pc' = "loop"
  /\ stepIdx' = stepIdx + 1
  /\ ledgerWrites' = Append(ledgerWrites, buildLedger(ctx, plan, TRUE, undefined))
  /\ UNCHANGED <<analysisWrites, exitCode, options, plan, stepMs, invoked,
                 warnings, call, outcome>>

\* emit_ledger: the work unit is empty
ExecEmitLedger ==
  /\ Executing("emit_ledger")
  /\ Settle(ctx, NoError)
  /\ UNCHANGED <<options, plan, stepMs, invoked, warnings, call, outcome>>

\* variant: after the loop passed is true only when no step failed
Finish_PassedIfNoFailure ==
  /\ pc = "loop"
  /\ stepIdx > Len(plan.steps)
  /\ emitOutputs(ctx, plan,
                 \A r \in Range(ctx.stepResults) : r.status # "failed", undefined)
  /\ pc' = "done"
  /\ exitCode' = 0
  /\ UNCHANGED <<warnings, call, outcome,
                 options, plan, ctx, stepIdx, stepMs, invoked>>

\* after the loop: emitOutputs(ctx, plan, true) and the return
Finish ==
  /\ pc = "loop"
  /\ stepIdx > Len(plan.steps)
  /\ emitOutputs(ctx, plan, TRUE, undefined)
  /\ pc' = "done"
  /\ exitCode' = 0
  /\ UNCHANGED <<warnings, call, outcome,
                 options, plan, ctx, stepIdx, stepMs, invoked>>

Next ==
  \/ SkipStep
  \/ BeginStep
  \/ ExecFetch
  \/ ExecExtract
  \/ ExecLocate
  \/ ExecValidate
  \/ ExecGenerate
  \/ ExecEmitLedger
  \/ Finish

Spec == Init /\ [][Next]_vars

(* -------------- validateSections called on its own ------------------- *)
\* no workflow is running
Idle ==
  /\ options = AnalyzeOptions("command", DEFAULT_REQUIRE, TRUE)
  /\ plan = buildWorkflow(options)
  /\ ctx = NewContext(options)
  /\ pc = "idle"
  /\ stepIdx = 1
  /\ stepMs = 0
  /\ invoked = <<>>
  /\ ledgerWrites = <<>>
  /\ analysisWrites = <<>>
  /\ exitCode = -1
  /\ warnings = <<>>

\* a SectionMatch as the validator reads it
SectionMatch(name, found, confidence, lengthChars) ==
  [name |-> name, found |-> found, confidence |-> confidence,
   startOffset |-> 0, endOffset |-> lengthChars, lengthChars |-> lengthChars,
   content |-> <<>>]

\* confidences on both sides of the two thresholds, lengths on both sides
\* of the minimum
SampleConfidences == {40, 60, 80}

SampleLengths == {MIN_SECTION_LENGTH - 1, MIN_SECTION_LENGTH}

\* none, a not-found one, or a found one, for a section name
SampleMatches(name) ==
  {<<>>, <<makeNotFound(name)>>}
  \cup {<<SectionMatch(name, TRUE, c, l)>> : c \in SampleConfidences, l \in SampleLengths}

SampleSections ==
  {a \o b \o c : a \in SampleMatches("risk_factors"), b \in SampleMatches("mdna"),
                 c \in SampleMatches("financials")}

SampleKeys == {"risk-factors", "md&a", "financials", "liquidity"}

ValidatorCalls ==
  [fn : {"validateSections"},
   sections : SampleSections,
   requiredKeys : SeqsOf(SampleKeys, 0, MaxRequire + 1),
   confidenceThreshold : {INTENT_CONFIDENCE_THRESHOLD, COMMAND_CONFIDENCE_THRESHOLD},
   hardFail : BOOLEAN]

InitValidator ==
  /\ Idle
  /\ call \in ValidatorCalls
  /\ outcome = NoCall

CallValidateSections ==
  /\ call.fn = "validateSections"
  /\ outcome = NoCall
  /\ outcome' = [thrown |-> validateSections(call.sections, call.requiredKeys,
                                             call.confidenceThreshold, call.hardFail)]
  /\ warnings' = warnings \o validateSectionsWarning(call.sections, call.requiredKeys,
                                call.confidenceThreshold, call.hardFail)
  /\ UNCHANGED <<options, plan, ctx, pc, stepIdx, stepMs, invoked, ledgerWrites,
                 analysisWrites, exitCode, call>>

NextValidator == CallValidateSections

SpecValidator == InitValidator /\ [][NextValidator]_vars

(* ======================= properties of runWorkflow ==================== *)
Terminated == pc \in {"done", "exited"}

\* the names of the results recorded so far
ResultNames == [i \in DOMAIN ctx.stepResults |-> ctx.stepResults[i].name]

PlanNames == [i \in DOMAIN plan.steps |-> plan.steps[i].name]

\* the step being executed throws in this transition
Fails ==
  /\ pc = "running"
  /\ Len(ctx'.stepResults) = Len(ctx.stepResults) + 1
  /\ ctx'.stepResults[Len(ctx'.stepResults)].status = "failed"

\* the number of results with status passed or failed
ExecutedCount ==
  Cardinality({i \in DOMAIN ctx.stepResults :
                 ctx.stepResults[i].status \in {"passed", "failed"}})

\* C1: the ledger is written exactly once per run: at no time more than
\* once, not at all while the run is under way, and once when the run has
\* ended, either after the last plan step (the loop is past the plan,
\* normal return) or at the enforced halt (the last result is a failed
\* required step of a command-mode run, exit code 2).
C1_LedgerEmittedExactlyOnce ==
  /\ Len(ledgerWrites) <= 1
  /\ Terminated <=> Len(ledgerWrites) = 1
  /\ pc = "done" =>
       /\ stepIdx = Len(plan.steps) + 1
       /\ Len(ctx.stepResults) = Len(plan.steps)
       /\ ledgerWrites[1].passed
  /\ pc = "exited" =>
       /\ options.mode = "command"
       /\ ctx.stepResults[Len(ctx.stepResults)].status = "failed"
       /\ plan.steps[Len(ctx.stepResults)].required
       /\ ~ledgerWrites[1].passed

\* C1 witness: a run halted at a failing step, with its one ledger
C1_Witness ==
  /\ pc = "exited"
  /\ Len(ledgerWrites) = 1
  /\ Len(ctx.stepResults) < Len(plan.steps)

\* C2: only the failure of a required step in command mode ends the step
\* sequence early; a failure of a step that is not required, or any failure
\* in intent mode, is followed by the next step of the plan; an intent-mode
\* run that returns has a result for every step of the plan, in plan order.
C2_OnlyStrictRequiredFailureHalts ==
  [][ /\ (Fails /\ ~(options.mode = "command" /\ CurrentStep.required)) =>
           /\ pc' = "loop"
           /\ stepIdx' = stepIdx + 1
           /\ exitCode' = -1
           /\ ledgerWrites' = ledgerWrites
      /\ (pc # "exited" /\ pc' = "exited") =>
           /\ Fails
           /\ options.mode = "command"
           /\ CurrentStep.required
      /\ (options.mode = "intent" /\ pc' = "done") =>
           /\ [i \in DOMAIN ctx'.stepResults |-> ctx'.stepResults[i].name] = PlanNames
           /\ \A i \in DOMAIN ctx'.stepResults :
                ctx'.stepResults[i].status \in {"passed", "failed", "skipped"}
    ]_vars

\* C2 witness: an intent-mode run in which a required step failed and a
\* later step was executed all the same
C2_Witness ==
  /\ options.mode = "intent"
  /\ \E i \in DOMAIN ctx.stepResults :
       /\ ctx.stepResults[i].status = "failed"
       /\ plan.steps[i].required
       /\ \E j \in DOMAIN ctx.stepResults :
            j > i /\ ctx.stepResults[j].status = "passed"

\* the result at position i is a failed required step of a command-mode run
RequiredFailureAt(i) ==
  /\ options.mode = "command"
  /\ ctx.stepResults[i].status = "failed"
  /\ plan.steps[i].required

C4_HaltLedgerCarriesFailure ==
  exitCode = 2 =>
    /\ Len(ledgerWrites) = 1
    /\ ledgerWrites[1].passed = FALSE
    /\ ctx.stepResults[Len(ctx.stepResults)].status = "failed"
    /\ ledgerWrites[1].failureReason = ctx.stepResults[Len(ctx.stepResults)].error
    /\ ledgerWrites[1].failureReason # undefined

\* C4 witness: a halted run whose ledger quotes a validation failure
C4_Witness ==
  /\ exitCode = 2
  /\ Len(ledgerWrites) = 1
  /\ ledgerWrites[1].failureReason.head = "Validation failed"
  /\ Len(ledgerWrites[1].failureReason.failures) >= 2

(* ======================= properties of the ledger ===================== *)
\* executedSteps followed by skippedSteps
Accounted(ledger) == ledger.executedSteps \o ledger.skippedSteps

NoDuplicates(s) == \A i, j \in DOMAIN s : s[i] = s[j] => i = j

StepUniverse == Range(ALL_REQUIRED_STEPS)

\* C5 as stated: in every ledger, of halted runs too, executedSteps and
\* skippedSteps together hold each of the six step names exactly once.
C5_EveryLedgerCoversUniverse ==
  \A k \in DOMAIN ledgerWrites :
    /\ NoDuplicates(Accounted(ledgerWrites[k]))
    /\ Range(Accounted(ledgerWrites[k])) = StepUniverse

\* C5 amended: in every ledger executedSteps and skippedSteps together hold
\* no name twice and only names of the universe; in the ledger of a run
\* that was not halted (passed = true) they hold all six names; in the
\* ledger of a halted run (passed = false) they hold the names of the plan
\* steps up to the failed one and those of the skip set, and the names of
\* the other steps are in neither list.
C5_LedgerCoversUniverseUnlessHalted ==
  \A k \in DOMAIN ledgerWrites :
    LET ledger == ledgerWrites[k]
    IN /\ NoDuplicates(Accounted(ledger))
       /\ Range(Accounted(ledger)) \subseteq StepUniverse
       /\ ledger.passed => Range(Accounted(ledger)) = StepUniverse
       /\ ~ledger.passed =>
            /\ Range(Accounted(ledger)) =
                 {PlanNames[i] : i \in 1..Len(ctx.stepResults)} \cup skippedSet
            /\ Range(Accounted(ledger)) # StepUniverse

\* C5 witness: the ledger of an intent-mode run with two steps skipped and
\* a failed step among the executed ones
C5_Witness ==
  /\ pc = "done"
  /\ Len(ledgerWrites[1].skippedSteps) = 2
  /\ Len(ledgerWrites[1].executedSteps) = 4
  /\ \E i \in DOMAIN ctx.stepResults : ctx.stepResults[i].status = "failed"

\* C6: a command-mode ledger with passed = true has executedSteps equal to
\* requiredSteps, the six names in plan order, and no skipped step.
C6_PassedCommandLedgerIsComplete ==
  \A k \in DOMAIN ledgerWrites :
    (ledgerWrites[k].mode = "command" /\ ledgerWrites[k].passed) =>
      /\ ledgerWrites[k].executedSteps = ledgerWrites[k].requiredSteps
      /\ ledgerWrites[k].executedSteps = PlanNames
      /\ ledgerWrites[k].skippedSteps = <<>>

\* C6 witness: a command-mode run that returned normally
C6_Witness ==
  /\ pc = "done"
  /\ options.mode = "command"
  /\ Len(ledgerWrites) = 1
  /\ ledgerWrites[1].passed

\* C7: the ledger of an intent-mode run whose plan came with a non-empty
\* skip set has fewer executedSteps than requiredSteps and deterministic
\* false.
C7_IntentSkipsShowInLedger ==
  \A k \in DOMAIN ledgerWrites :
    (options.mode = "intent" /\ plan.skippedSteps # <<>>) =>
      /\ Len(ledgerWrites[k].executedSteps) < Len(ledgerWrites[k].requiredSteps)
      /\ ledgerWrites[k].deterministic = FALSE

\* C7 witness: an intent-mode run with one skipped step has written its
\* ledger
C7_Witness ==
  /\ options.mode = "intent"
  /\ Len(plan.skippedSteps) = 1
  /\ Len(ledgerWrites) = 1
  /\ Len(ledgerWrites[1].executedSteps) = 5

(* ==================== properties of the step results ================== *)
\* C8 as stated: when a run has ended, returned or halted, stepResults has
\* one result for each step of the plan, in plan order.
C8_OneResultPerPlanStepAtEnd ==
  Terminated => ResultNames = PlanNames

\* C8 amended: at any time stepResults has one result for each plan step
\* handled so far, in plan order; when the run returns normally that is
\* every step of the plan; when the run is halted it is every step up to
\* and including the failed one, and the later steps have no result.
C8_OneResultPerHandledStep ==
  /\ Len(ctx.stepResults) <= Len(plan.steps)
  /\ ResultNames = SubSeq(PlanNames, 1, Len(ctx.stepResults))
  /\ pc = "loop" => Len(ctx.stepResults) = stepIdx - 1
  /\ pc = "done" => ResultNames = PlanNames
  /\ pc = "exited" =>
       /\ Len(ctx.stepResults) = stepIdx
       /\ Len(ctx.stepResults) < Len(plan.steps)
       /\ ctx.stepResults[stepIdx].status = "failed"

\* C8 witness: a run with skipped and executed steps that returned
C8_Witness ==
  /\ pc = "done"
  /\ \E i, j \in DOMAIN ctx.stepResults :
       /\ i < j
       /\ ctx.stepResults[i].status = "skipped"
       /\ ctx.stepResults[j].status = "passed"

\* C9: a step whose name is in the skip set gets the result (name, skipped,
\* 0) and nothing else happens: the rest of the context is as before and
\* no work unit is invoked; hence the skipped results are those of the
\* steps in the skip set, they have duration 0, and no step of the skip set
\* is ever among the invoked ones.
C9_SkippedStepLeavesContextAlone ==
  /\ [][(AtStep /\ CurrentStep.name \in skippedSet) =>
          /\ ctx' = [ctx EXCEPT !.stepResults =
                       Append(@, [name |-> CurrentStep.name, status |-> "skipped",
                                  durationMs |-> 0])]
          /\ invoked' = invoked
          /\ pc' = "loop"
          /\ stepIdx' = stepIdx + 1]_vars
  /\ [](/\ \A i \in DOMAIN ctx.stepResults :
             /\ ctx.stepResults[i].status = "skipped"
                  <=> ctx.stepResults[i].name \in skippedSet
             /\ ctx.stepResults[i].status = "skipped"
                  => ctx.stepResults[i].durationMs = 0
        /\ Range(invoked) \cap skippedSet = {})

\* C9 witness: a step was skipped after the context had been filled, in a
\* run whose executed steps take time
C9_Witness ==
  /\ stepMs > 0
  /\ ctx.sections # <<>>
  /\ Len(ctx.stepResults) >= 4
  /\ ctx.stepResults[Len(ctx.stepResults)].status = "skipped"

(* ================== properties of the analysis artifact =============== *)
\* C10: the analysis is written exactly when the ledger written has
\* passed = true: a halted run (passed = false, exit code 2) writes none,
\* a run whose ledger has passed = true writes one, built from the context.
C10_AnalysisWrittenIffPassed ==
  /\ Len(analysisWrites) <= 1
  /\ Len(analysisWrites) = 1 <=> (Len(ledgerWrites) = 1 /\ ledgerWrites[1].passed)
  /\ exitCode = 2 => analysisWrites = <<>>
  /\ pc = "done" => analysisWrites = <<buildAnalysisOutput(ctx)>>

\* C10 witness: a halted run: the ledger with passed = false is written,
\* the analysis is not
C10_Witness ==
  /\ pc = "exited"
  /\ Len(ledgerWrites) = 1
  /\ ~ledgerWrites[1].passed
  /\ analysisWrites = <<>>

(* ===================== properties of failing runs ===================== *)
\* the result of the step that failed with the given message head
FailedWith(name, head) ==
  \E i \in DOMAIN ctx.stepResults :
    /\ ctx.stepResults[i].name = name
    /\ ctx.stepResults[i].status = "failed"
    /\ ctx.stepResults[i].error.head = head

\* C11 as stated: the process exits with code 2 only when the validate step
\* failed in command mode on missing or below-threshold sections; a failure
\* of fetch or of extract never gives exit code 2, and no intent-mode run
\* exits with code 2.
C11_ExitCode2OnlyForValidationFailure ==
  exitCode = 2 =>
    /\ options.mode = "command"
    /\ FailedWith("validate", "Validation failed")
    /\ ~\E i \in DOMAIN ctx.stepResults :
          /\ ctx.stepResults[i].name \in {"fetch", "extract"}
          /\ ctx.stepResults[i].status = "failed"

\* C12 as stated: once the extract step has failed because the extracted
\* text has fewer than 1000 characters, in either mode, none of
\* locate_sections, validate, generate is executed and no ledger with
\* passed = true is written.
C12_TooShortTextIsFatal ==
  FailedWith("extract", "Extracted text too short") =>
    /\ Range(invoked) \cap {"locate_sections", "validate", "generate"} = {}
    /\ \A k \in DOMAIN ledgerWrites : ~ledgerWrites[k].passed

(* ================== end-to-end scenarios: a missing section =========== *)
\* the required key has no located section in the context
NotLocated(reqKey) ==
  LET i == FindSection(ctx.sections, reqKey)
  IN i = 0 \/ ~ctx.sections[i].found

\* positions of options.require whose section is not located
MissingKeys == {k \in DOMAIN options.require : NotLocated(options.require[k])}

\* the validate step has been executed to its end
ValidateExecuted ==
  \E i \in DOMAIN ctx.stepResults :
    /\ ctx.stepResults[i].name = "validate"
    /\ ctx.stepResults[i].status \in {"passed", "failed"}

\* C13: scenario B. In command mode, once validate has been executed with
\* exactly one required section not located, the run is halted: the steps
\* invoked are fetch, extract, locate_sections, validate (generate and
\* emit_ledger never run), the one ledger has these four as executedSteps,
\* passed = false and a failureReason that lists the missing section as not
\* found, the exit code is 2 and no analysis is written.
C13_ScenarioB_StrictHaltsAfterValidate ==
  (options.mode = "command" /\ ValidateExecuted /\ Cardinality(MissingKeys) = 1) =>
    /\ pc = "exited"
    /\ exitCode = 2
    /\ invoked = <<"fetch", "extract", "locate_sections", "validate">>
    /\ Len(ledgerWrites) = 1
    /\ ledgerWrites[1].executedSteps =
         <<"fetch", "extract", "locate_sections", "validate">>
    /\ ledgerWrites[1].skippedSteps = <<>>
    /\ ledgerWrites[1].passed = FALSE
    /\ ledgerWrites[1].failureReason.head = "Validation failed"
    /\ \A k \in MissingKeys :
         Failure(options.require[k], "not found in filing", 0, 0)
           \in Range(ledgerWrites[1].failureReason.failures)
    /\ analysisWrites = <<>>

\* C13 witness: a halted command-mode run with the three default sections
\* required and one of them not located
C13_Witness ==
  /\ options.mode = "command"
  /\ options.require = DEFAULT_REQUIRE
  /\ Cardinality(MissingKeys) = 1
  /\ ValidateExecuted
  /\ pc = "exited"

\* the entry generateAnalysis makes for a required key that is not located
Placeholder(reqKey) ==
  [name |-> sectionKeyToName(reqKey), found |-> FALSE, confidence |-> 0,
   summary |-> <<>>, evidence |-> <<>>]

\* the required key is one of the names of a section the locator looks for
NamesKnownSection(reqKey) ==
  \E k \in DOMAIN SECTION_PATTERNS : reqKey \in SECTION_PATTERNS[k].requireKeys

\* an intent-mode run with the planner's plan (nothing skipped) has
\* returned, and exactly one required section was not located
ScenarioC ==
  /\ options.mode = "intent"
  /\ plan.skippedSteps = <<>>
  /\ pc = "done"
  /\ Cardinality(MissingKeys) = 1

\* what scenario C says of the run apart from sectionValidation: all six
\* steps executed, one ledger with passed = true, one analysis with the
\* placeholder at the missing key
ScenarioC_RunCompletes ==
  /\ Len(ledgerWrites) = 1
  /\ ledgerWrites[1].executedSteps = ALL_REQUIRED_STEPS
  /\ ledgerWrites[1].passed = TRUE
  /\ Len(analysisWrites) = 1
  /\ \A k \in MissingKeys :
       analysisWrites[1].sections[k] = Placeholder(options.require[k])

\* C14 as stated: scenario C. The run completes all six steps, the ledger
\* has passed = true, sectionValidation has found = false for the missing
\* section, and the analysis holds the empty placeholder for it.
C14_ScenarioC_LenientCompletes ==
  ScenarioC =>
    /\ ScenarioC_RunCompletes
    /\ \A k \in MissingKeys :
         LET name == sectionKeyToName(options.require[k])
         IN /\ name \in DOMAIN ledgerWrites[1].sectionValidation
            /\ ledgerWrites[1].sectionValidation[name].found = FALSE

\* C14 amended: scenario C. The run completes all six steps, the ledger has
\* passed = true and the analysis holds the empty placeholder for the
\* missing section; sectionValidation has found = false for it when the
\* required key names one of the sections the locator looks for, and has no
\* entry for it when the key names none of them.
C14_ScenarioC_KnownSections ==
  ScenarioC =>
    /\ ScenarioC_RunCompletes
    /\ \A k \in MissingKeys :
         LET name == sectionKeyToName(options.require[k])
         IN IF NamesKnownSection(options.require[k])
            THEN /\ name \in DOMAIN ledgerWrites[1].sectionValidation
                 /\ ledgerWrites[1].sectionValidation[name].found = FALSE
            ELSE name \notin DOMAIN ledgerWrites[1].sectionValidation

\* C14 witness: scenario C with the three default sections required, every
\* step passed, one section missing
C14_Witness ==
  /\ ScenarioC
  /\ options.require = DEFAULT_REQUIRE
  /\ \A i \in DOMAIN ctx.stepResults : ctx.stepResults[i].status = "passed"

(* ====================== properties of the planner ===================== *)
\* the names of the required steps of a plan
RequiredNames(p) == {p.steps[i].name : i \in {j \in DOMAIN p.steps : p.steps[j].required}}

\* C15: the plan of every run, built by buildWorkflow, has the six steps in
\* order; fetch, extract, locate_sections and emit_ledger are required in
\* both modes, validate and generate are required exactly in command mode:
\* six required steps in command mode, four in intent mode.
C15_RequiredFlagsFollowMode ==
  /\ PlanNames = ALL_REQUIRED_STEPS
  /\ {"fetch", "extract", "locate_sections", "emit_ledger"} \subseteq RequiredNames(plan)
  /\ \A i \in DOMAIN plan.steps :
       plan.steps[i].name \in {"validate", "generate"} =>
         (plan.steps[i].required <=> options.mode = "command")
  /\ Cardinality(RequiredNames(plan)) = IF options.mode = "command" THEN 6 ELSE 4

\* C15 witness: an intent-mode run is inside its validate step, which is not
\* required
C15_Witness ==
  /\ options.mode = "intent"
  /\ Executing("validate")
  /\ ~CurrentStep.required

\* the options of the run, in the other mode or with the other strict flag
WithMode(mode) == [options EXCEPT !.mode = mode]

WithStrict(strict) == [options EXCEPT !.strict = strict]

\* C16: whatever the other options of a run are, the threshold buildWorkflow
\* chooses for them in command mode is at least 0.75, the one it chooses in
\* intent mode is at most 0.5, so the first is never below the second; the
\* plan of the run carries the threshold of its mode, in the plan and in the
\* validate step. (Thresholds are in hundredths.)
C16_StrictThresholdNotBelowLenient ==
  /\ buildWorkflow(WithMode("command")).confidenceThreshold >= 75
  /\ buildWorkflow(WithMode("intent")).confidenceThreshold <= 50
  /\ buildWorkflow(WithMode("command")).closure.threshold
       >= buildWorkflow(WithMode("intent")).closure.threshold
  /\ plan.confidenceThreshold = buildWorkflow(WithMode(options.mode)).confidenceThreshold
  /\ plan.closure.threshold = plan.confidenceThreshold

\* C16 witness: a command-mode run with --no-strict and a typed require list
\* has executed validate under the command threshold
C16_Witness ==
  /\ options.mode = "command"
  /\ options.strict = FALSE
  /\ options.require # DEFAULT_REQUIRE
  /\ ValidateExecuted
  /\ plan.closure.threshold = COMMAND_CONFIDENCE_THRESHOLD

\* C17 as stated: with strict = false the threshold validation applies is
\* lower than the one the same options give with strict = true.
C17_NoStrictLowersThreshold ==
  options.strict = FALSE =>
    /\ plan.closure.threshold < buildWorkflow(WithStrict(TRUE)).closure.threshold
    /\ plan.confidenceThreshold < buildWorkflow(WithStrict(TRUE)).confidenceThreshold

(* ==================== properties of the intent routers ================ *)
\* C18 as stated: in intent mode, whichever router supplied the plan, the
\* skip set holds none of fetch, extract, emit_ledger, only locate_sections,
\* validate, generate may be in it, and emit_ledger is executed in every
\* run that returns.
C18_IntentNeverSkipsFetchExtractEmit ==
  options.mode = "intent" =>
    /\ skippedSet \cap {"fetch", "extract", "emit_ledger"} = {}
    /\ skippedSet \subseteq {"locate_sections", "validate", "generate"}
    /\ pc = "done" => "emit_ledger" \in Range(invoked)

(* ====================== properties of the validator =================== *)
\* the failures of the composite message of the call, thrown or warned
ReportedFailures ==
  IF outcome.thrown # NoError THEN outcome.thrown.failures
  ELSE IF warnings # <<>> THEN warnings[1].failures
  ELSE <<>>

\* what the k-th required key of the call has to report: that its section
\* is not found, or else, each on its own, that the confidence is below the
\* threshold and that the section is too short
KeyReport(k) ==
  LET key == call.requiredKeys[k]
      hits == {i \in DOMAIN call.sections :
                 matchesSectionKey(call.sections[i].name, key)}
  IN IF hits = {} \/ ~call.sections[MinOf(hits)].found
     THEN <<Failure(key, "not found in filing", 0, 0)>>
     ELSE LET section == call.sections[MinOf(hits)]
          IN (IF section.confidence < call.confidenceThreshold
              THEN <<Failure(key, "confidence below threshold", section.confidence,
                             call.confidenceThreshold)>>
              ELSE <<>>)
             \o (IF section.lengthChars < 500
                 THEN <<Failure(key, "too short", section.lengthChars, 500)>>
                 ELSE <<>>)

\* the reports of the required keys from the k-th on, in key order
RECURSIVE ReportsFrom(_)
ReportsFrom(k) ==
  IF k > Len(call.requiredKeys) THEN <<>>
  ELSE KeyReport(k) \o ReportsFrom(k + 1)

\* C19: a call of validateSections reports the failures of every required
\* key, in required-key order, in one message: nothing when no key fails,
\* else one message (thrown when hardFail is set, warned when it is not)
\* that lists for each key either that it is not found or, independently,
\* its confidence failure and its length failure.
C19_AllFailuresInOneMessage ==
  outcome # NoCall =>
    /\ ReportedFailures = ReportsFrom(1)
    /\ Len(warnings) + (IF outcome.thrown # NoError THEN 1 ELSE 0)
         = IF ReportsFrom(1) = <<>> THEN 0 ELSE 1

\* C19 witness: the first key's section is not found, the second key's
\* section is below the threshold and too short, three failures are thrown
\* in one message
C19_Witness ==
  /\ outcome # NoCall
  /\ call.hardFail
  /\ Len(call.requiredKeys) = 2
  /\ Len(outcome.thrown.failures) = 3
  /\ outcome.thrown.failures[1].why = "not found in filing"
  /\ outcome.thrown.failures[2].why = "confidence below threshold"
  /\ outcome.thrown.failures[3].why = "too short"
  /\ outcome.thrown.failures[2].key = outcome.thrown.failures[3].key

\* the result of the validate step, once it has been executed
ValidateResult ==
  ctx.stepResults[CHOOSE i \in DOMAIN ctx.stepResults :
                    ctx.stepResults[i].name = "validate"]

\* some required key of the run has something to report: its section is not
\* located, or is below the plan's threshold, or is too short
AnyKeyFails ==
  \E k \in DOMAIN options.require :
    \/ NotLocated(options.require[k])
    \/ LET section == ctx.sections[FindSection(ctx.sections, options.require[k])]
       IN \/ section.confidence < plan.confidenceThreshold
          \/ section.lengthChars < 500

\* C20: once the validate step has been executed, in command mode it has
\* failed with the composite error exactly when some required key fails,
\* and nothing was warned; in intent mode it has passed whatever the keys
\* do, the failures are one warning and no more, and the run goes on: it is
\* not halted and, unless generate is in the skip set, generate is the next
\* step executed.
C20_SameFailuresEscalateByMode ==
  ValidateExecuted =>
    /\ options.mode = "command" =>
         /\ ValidateResult.status = "failed" <=> AnyKeyFails
         /\ ValidateResult.status = "failed" =>
              ValidateResult.error.head = "Validation failed"
         /\ warnings = <<>>
    /\ options.mode = "intent" =>
         /\ ValidateResult.status = "passed"
         /\ Len(warnings) = (IF AnyKeyFails THEN 1 ELSE 0)
         /\ \A w \in Range(warnings) :
              w.head = "Validation failed" /\ w.failures # <<>>
         /\ pc # "exited"
         /\ stepIdx > 4
         /\ (pc = "done" /\ "generate" \notin skippedSet) =>
              \E i \in DOMAIN invoked :
                /\ i > 1
                /\ invoked[i] = "generate"
                /\ invoked[i - 1] = "validate"

\* C20 witness: an intent-mode run whose validate step warned about a
\* failing key and passed, and whose generate step was executed after it
C20_Witness ==
  /\ options.mode = "intent"
  /\ ValidateExecuted
  /\ AnyKeyFails
  /\ Len(warnings) = 1
  /\ "generate" \in Range(invoked)
  /\ pc = "done"

(* ====================== properties of buildLedger ===================== *)
\* calls the orchestrator never makes: passed with a failure reason, not
\* passed without one
SampleOutcomes ==
  {[passed |-> TRUE, failureReason |-> Message("Validation failed", 0, <<>>)],
   [passed |-> FALSE, failureReason |-> undefined]}

\* C21: for the run context and plan of every state of every run, and for
\* either passed flag, with or without a failure reason, buildLedger
\* returns passed and failureReason as supplied, also when the context
\* holds failed results or sections that are not found, and deterministic
\* true exactly in command mode; the ledgers written carry what the
\* orchestrator supplied: passed = true and no reason after the loop,
\* passed = false and the error at a halt.
C21_LedgerTakesPassedFromCaller ==
  /\ \A supplied \in SampleOutcomes :
       \A ledger \in {buildLedger(ctx, plan, supplied.passed, supplied.failureReason)} :
          /\ ledger.passed = supplied.passed
          /\ ledger.failureReason = supplied.failureReason
          /\ ledger.deterministic = (options.mode = "command")
          /\ ledger.mode = options.mode
  /\ \A k \in DOMAIN ledgerWrites :
       /\ ledgerWrites[k].passed = (pc = "done")
       /\ pc = "done" => ledgerWrites[k].failureReason = undefined
       /\ ledgerWrites[k].deterministic = (options.mode = "command")

\* C21 witness: a ledger with passed = true was written from a context
\* that holds a failed result and a section that is not found
C21_Witness ==
  /\ Len(ledgerWrites) = 1
  /\ ledgerWrites[1].passed
  /\ \E i \in DOMAIN ctx.stepResults : ctx.stepResults[i].status = "failed"
  /\ \E i \in DOMAIN ctx.sections : ~ctx.sections[i].found

(* ====================== properties of the summarizer ================== *)
\* the generate step has been executed to its end
GenerateExecuted ==
  \E i \in DOMAIN ctx.stepResults :
    /\ ctx.stepResults[i].name = "generate"
    /\ ctx.stepResults[i].status \in {"passed", "failed"}

\* C22: what generateAnalysis returned for the located sections and the
\* required keys of a run has one entry for each required key, in the order
\* of the keys; every entry has at most 5 summary sentences, at most 3
\* evidence snippets, and no snippet longer than 200 characters; the entry
\* of a key whose section is not located has found = false and empty
\* summary and evidence, the entry of a located one has found = true.
C22_AnalysisShapeAndBounds ==
  GenerateExecuted =>
    /\ Len(ctx.analyses) = Len(options.require)
    /\ \A k \in DOMAIN ctx.analyses :
         LET entry == ctx.analyses[k]
         IN /\ entry.name = sectionKeyToName(options.require[k])
            /\ Len(entry.summary) <= 5
            /\ Len(entry.evidence) <= 3
            /\ \A e \in DOMAIN entry.evidence : entry.evidence[e].len <= 200
            /\ entry.found <=> ~NotLocated(options.require[k])
            /\ ~entry.found =>
                 /\ entry.summary = <<>>
                 /\ entry.evidence = <<>>
                 /\ entry.confidence = 0

\* C22 witness: of the three default keys one is not located and one has a
\* full summary, three snippets and a snippet that was cut
C22_Witness ==
  /\ GenerateExecuted
  /\ options.require = DEFAULT_REQUIRE
  /\ \E k \in DOMAIN ctx.analyses : ~ctx.analyses[k].found
  /\ \E k \in DOMAIN ctx.analyses :
       /\ Len(ctx.analyses[k].summary) = 5
       /\ Len(ctx.analyses[k].evidence) = 3
       /\ \E e \in DOMAIN ctx.analyses[k].evidence : ctx.analyses[k].evidence[e].cut

(* ======================= properties of the locator ==================== *)
\* the k-th located section holds the heading of the j-th one
HoldsHeadingOf(k, j) ==
  \E b \in Range(ctx.sections[k].content) :
    b.term /\ b.item = SECTION_PATTERNS[j].item

\* C23 as stated: on the markup path and on the text path, the content of a
\* located section holds neither the heading that starts the next located
\* section nor anything after it. (The sections of a document come in the
\* order of their items, so a heading of another located section inside the
\* content is the heading of a later section, and what follows it in the
\* content is that section's text.)
C23_SectionStopsBeforeNextHeading ==
  \A k, j \in DOMAIN ctx.sections :
    (k # j /\ ctx.sections[k].found /\ ctx.sections[j].found) =>
      ~HoldsHeadingOf(k, j)

(* ====================== the status of a plan step ===================== *)
\* the status of the i-th step of the plan: that of its result when it has
\* one, running while its work unit is being executed, pending before
StatusOf(i) ==
  IF i <= Len(ctx.stepResults) THEN ctx.stepResults[i].status
  ELSE IF pc = "running" /\ stepIdx = i THEN "running"
  ELSE "pending"

TerminalStatus == {"passed", "failed", "skipped"}

\* C24: the status of a plan step changes only from pending to running,
\* from running to passed or failed, or from pending to skipped; a passed,
\* failed or skipped step stays so; a step leaves pending only when every
\* earlier step of the plan is passed, failed or skipped; and at any time
\* the results are those of the first steps of the plan, at most one step
\* is running and every step before a step that is not pending is terminal.
C24_StepStatusMachine ==
  /\ [][\A i \in DOMAIN plan.steps :
          StatusOf(i)' # StatusOf(i) =>
            /\ <<StatusOf(i), StatusOf(i)'>> \in
                 {<<"pending", "running">>, <<"running", "passed">>,
                  <<"running", "failed">>, <<"pending", "skipped">>}
            /\ StatusOf(i) = "pending" =>
                 \A j \in 1..(i - 1) : StatusOf(j) \in TerminalStatus]_vars
  /\ [](/\ Len(ctx.stepResults) <= Len(plan.steps)
        /\ \A i \in DOMAIN ctx.stepResults :
             ctx.stepResults[i].name = plan.steps[i].name
        /\ Cardinality({i \in DOMAIN plan.steps : StatusOf(i) = "running"}) <= 1
        /\ \A i \in DOMAIN plan.steps :
             (i > 1 /\ StatusOf(i) # "pending") =>
               StatusOf(i - 1) \in TerminalStatus)

\* C24 witness: a step is running after a skipped and a failed one, the
\* later steps are pending
C24_Witness ==
  /\ pc = "running"
  /\ \E i \in DOMAIN plan.steps : StatusOf(i) = "skipped"
  /\ \E i \in DOMAIN plan.steps : StatusOf(i) = "failed"
  /\ \E i \in DOMAIN plan.steps : StatusOf(i) = "pending"

(* ================== what the steps write in the context =============== *)
\* the context but for its step results
WithoutResults(c) == [c EXCEPT !.stepResults = <<>>]

\* the context but for its step results, analyses and overall summary
WithoutAnalysis(c) ==
  [c EXCEPT !.stepResults = <<>>, !.analyses = <<>>, !.overallSummary = <<>>]

\* C25: the sections of the context change only while locate_sections is
\* executed; the execution of validate, passed or failed, changes nothing
\* of the context but adds its one StepResult; the execution of generate
\* changes nothing but analyses and the overall summary, and adds its one
\* StepResult.
C25_OnlyLocateWritesSections ==
  [][/\ ctx'.sections # ctx.sections => Executing("locate_sections")
     /\ Executing("validate") =>
          /\ WithoutResults(ctx') = WithoutResults(ctx)
          /\ SubSeq(ctx'.stepResults, 1, Len(ctx.stepResults)) = ctx.stepResults
          /\ Len(ctx'.stepResults) = Len(ctx.stepResults) + 1
          /\ ctx'.stepResults[Len(ctx'.stepResults)].name = "validate"
     /\ Executing("generate") =>
          /\ WithoutAnalysis(ctx') = WithoutAnalysis(ctx)
          /\ SubSeq(ctx'.stepResults, 1, Len(ctx.stepResults)) = ctx.stepResults
          /\ Len(ctx'.stepResults) = Len(ctx.stepResults) + 1
          /\ ctx'.stepResults[Len(ctx'.stepResults)].name = "generate"]_vars

\* C25 witness: validate has failed on a section that is not found, and the
\* sections of the context still hold that section
C25_Witness ==
  /\ ValidateExecuted
  /\ ValidateResult.status = "failed"
  /\ Len(ctx.sections) = 3
  /\ \E i \in DOMAIN ctx.sections : ~ctx.sections[i].found
  /\ \E i \in DOMAIN ctx.sections : ctx.sections[i].found

(* ================= properties of the sentence scoring ================= *)
\* the section generateAnalysis summarizes for the k-th required key
SectionOfKey(k) == ctx.sections[FindSection(ctx.sections, options.require[k])]

\* its sentences inside the length band, in the order of the text
Candidates(k) ==
  SelectSeq(splitSentences(SectionOfKey(k).content),
            LAMBDA s : s.len > 30 /\ s.len < 500)

\* twice the score, an occurrence of a keyword adding 1: a keyword that
\* occurs twice adds 2
ScorePerOccurrence2(s, keywords) ==
  2 * (Cardinality(s.hits \cap keywords) + Cardinality(s.twice \cap keywords))
    + (IF s.fig THEN 1 ELSE 0)

\* twice the score, a keyword that occurs adding 1 however often it occurs
ScorePerKeyword2(s, keywords) ==
  2 * Cardinality(s.hits \cap keywords) + (IF s.fig THEN 1 ELSE 0)

\* the ids of the first five candidates by descending score, ties in the
\* order of the text, under a scoring
TopFive(k, Score(_, _)) ==
  LET Pick(c, rank) ==
        [r \in 1..Min(5, Len(c)) |-> c[CHOOSE i \in DOMAIN c : rank[i] = r - 1].id]
      Ranked(c, score) ==
        Pick(c, [i \in DOMAIN c |->
                   Cardinality({j \in DOMAIN c :
                                  \/ score[j] > score[i]
                                  \/ score[j] = score[i] /\ j < i})] \o <<>>)
      Scored(c, kw) == Ranked(c, [i \in DOMAIN c |-> Score(c[i], kw)] \o <<>>)
  IN Scored(Candidates(k), getKeywordsForSection(SectionOfKey(k).name))

SummaryIds(k) == [r \in DOMAIN ctx.analyses[k].summary |-> ctx.analyses[k].summary[r].id]

\* C26 as stated: the summary of a found section is the first five of its
\* sentences by descending score, ties in original order, where each
\* occurrence of a keyword of the section's list adds 1 (a keyword that
\* occurs twice adds 2) and a currency figure or percentage adds the bonus.
C26_ScoreCountsOccurrences ==
  GenerateExecuted =>
    \A k \in DOMAIN ctx.analyses :
      ctx.analyses[k].found => SummaryIds(k) = TopFive(k, ScorePerOccurrence2)

\* C26 amended: the summary of a found section is the first five of its
\* sentences by descending score, ties in original order, where each
\* keyword of the section's list that occurs in the sentence adds 1 however
\* often it occurs (a keyword that occurs twice adds 1) and a currency
\* figure or percentage adds the bonus of one half.
C26_ScoreCountsKeywords ==
  GenerateExecuted =>
    \A k \in DOMAIN ctx.analyses :
      ctx.analyses[k].found => SummaryIds(k) = TopFive(k, ScorePerKeyword2)

\* C26 witness: a risk section summarized with five sentences, first the
\* two of equal score in the order of the text, the second of which has a
\* keyword twice
C26_Witness ==
  /\ GenerateExecuted
  /\ \E k \in DOMAIN ctx.analyses :
       /\ ctx.analyses[k].found
       /\ ctx.analyses[k].name = "risk_factors"
       /\ Len(ctx.analyses[k].summary) = 5
       /\ ctx.analyses[k].summary[1].id = 1
       /\ ctx.analyses[k].summary[2].id = 7

(* ===================== properties of intent-mode runs ================= *)
\* the plan steps that are not in the skip set, in plan order
StepsToRun == SelectSeq(PlanNames, LAMBDA n : n \notin skippedSet)

RunFailures ==
  UNION ({Range(ctx.stepResults[i].error.failures) :
            i \in {j \in DOMAIN ctx.stepResults :
                     ctx.stepResults[j].status = "failed"}}
         \cup {Range(warnings[i].failures) : i \in DOMAIN warnings})

\* C28: every located section of a run has confidence 0 when it is not
\* found and 0.85, 0.90 or 0.95 when it is found, which is at least the
\* threshold of either mode (0.75 and 0.5); and every failure the validate
\* step throws or warns says that a section is not found or too short,
\* none that a confidence is below the threshold. (Hundredths.)
C28_ConfidenceNeverFailsValidation ==
  /\ \A i \in DOMAIN ctx.sections :
       /\ ~ctx.sections[i].found => ctx.sections[i].confidence = 0
       /\ ctx.sections[i].found =>
            /\ ctx.sections[i].confidence \in {85, 90, 95}
            /\ ctx.sections[i].confidence >= COMMAND_CONFIDENCE_THRESHOLD
            /\ ctx.sections[i].confidence >= INTENT_CONFIDENCE_THRESHOLD
            /\ ctx.sections[i].confidence >= plan.closure.threshold
  /\ \A f \in RunFailures : f.why \in {"not found in filing", "too short"}

\* C28 witness: validate has failed in command mode on a section that is
\* too short, with a section of the lowest confidence, 0.85, among the
\* located ones
C28_Witness ==
  /\ options.mode = "command"
  /\ ValidateExecuted
  /\ \E f \in RunFailures : f.why = "too short"
  /\ \E i \in DOMAIN ctx.sections : ctx.sections[i].confidence = 85

(* ==================== properties of command-mode runs ================= *)
\* positions of the failed results
FailedAt == {i \in DOMAIN ctx.stepResults : ctx.stepResults[i].status = "failed"}

\* C29: in a command-mode run, which has the planner's own plan, at most
\* one result is failed and it is the last one; the ledger of a halted run
\* has no skipped steps, and its executedSteps are the first steps of the
\* six-step order up to the failed one, fewer than six and without
\* emit_ledger.
C29_StrictFailureIsLast ==
  options.mode = "command" =>
    /\ plan = buildWorkflow(options)
    /\ Cardinality(FailedAt) <= 1
    /\ FailedAt \subseteq {Len(ctx.stepResults)}
    /\ pc = "exited" =>
         /\ FailedAt = {Len(ctx.stepResults)}
         /\ Len(ledgerWrites) = 1
         /\ ledgerWrites[1].skippedSteps = <<>>
         /\ Len(ledgerWrites[1].executedSteps) < Len(ALL_REQUIRED_STEPS)
         /\ ledgerWrites[1].executedSteps =
              SubSeq(ALL_REQUIRED_STEPS, 1, Len(ledgerWrites[1].executedSteps))
         /\ ledgerWrites[1].executedSteps[Len(ledgerWrites[1].executedSteps)]
              = ctx.stepResults[Len(ctx.stepResults)].name
         /\ "emit_ledger" \notin Range(ledgerWrites[1].executedSteps)

\* C29 witness: a command-mode run halted at extract: the ledger lists
\* fetch and extract
C29_Witness ==
  /\ options.mode = "command"
  /\ pc = "exited"
  /\ ledgerWrites[1].executedSteps = <<"fetch", "extract">>
  /\ ctx.stepResults[2].status = "failed"

(* ================ the emit_ledger step and the ledger ================= *)
\* C30: the execution of the emit_ledger work unit changes nothing of the
\* context but adds its StepResult, and writes neither ledger nor
\* analysis; every run that has ended has written its one ledger, also
\* when emit_ledger is in the skip set, and then the ledger lists it as
\* skipped and not as executed, and also when a halt came before
\* emit_ledger, and then the ledger does not list it as executed; in both
\* cases the work unit was never invoked.
C30_LedgerWrittenWithoutEmitStep ==
  /\ [][Executing("emit_ledger") =>
          /\ WithoutResults(ctx') = WithoutResults(ctx)
          /\ ledgerWrites' = ledgerWrites
          /\ analysisWrites' = analysisWrites]_vars
  /\ [](Terminated =>
          /\ Len(ledgerWrites) = 1
          /\ "emit_ledger" \in skippedSet =>
               /\ "emit_ledger" \in Range(ledgerWrites[1].skippedSteps)
               /\ "emit_ledger" \notin Range(ledgerWrites[1].executedSteps)
               /\ "emit_ledger" \notin Range(invoked)
          /\ pc = "exited" =>
               /\ "emit_ledger" \notin Range(ledgerWrites[1].executedSteps)
               /\ "emit_ledger" \notin Range(invoked))

\* C30 witness: a run with emit_ledger in the skip set has ended and its
\* ledger is written
C30_Witness ==
  /\ pc = "done"
  /\ "emit_ledger" \in skippedSet
  /\ Len(ledgerWrites) = 1
  /\ "emit_ledger" \in Range(ledgerWrites[1].skippedSteps)

====
